---------------------------- MODULE Spec2Model ----------------------------
(***************************************************************************)
(* Model of the amortization engine of loan_amortization_app               *)
(* (api/utils.py): calculate_amortization_amount and the generator         *)
(* amortization_schedule.                                                  *)
(*                                                                         *)
(* Number representation.  The program computes with Python floats.  Here  *)
(* monetary amounts (principal, payment, interest, balance) are integers   *)
(* counting cents, and rates and growth factors are exact rationals        *)
(* [num, den] in lowest terms with den > 0.  round(v, 2) becomes rounding  *)
(* of a rational number of cents to the nearest integer.  On an exact tie  *)
(* Python rounds the binary value it holds, which lies on either side of   *)
(* the tie or on it; round2 sends ties to the even neighbour, and the      *)
(* explored inputs are those on which the Python functions return, cent    *)
(* for cent, the values computed here.  Equalities between amounts are     *)
(* therefore equalities of cents, not of the bits of two floats.           *)
(***************************************************************************)
EXTENDS Integers, Sequences, FiniteSets, TLC

\* ------------------------------------------------------------------------
\* Bounds of the explored inputs
\* ------------------------------------------------------------------------
MaxPrincipal == 12      \* largest principal, in cents
NegPrincipal == 2       \* principals go down to -NegPrincipal cents
MaxPeriod == 6          \* largest number of periods
NegPeriod == 1          \* periods go down to -NegPeriod

\* ------------------------------------------------------------------------
\* api/enums.py: PaymentFrequency
\* ------------------------------------------------------------------------
PaymentFrequency ==
    [DAILY |-> 365, BIWEEKLY |-> 104, WEEKLY |-> 52, SEMIMONTHLY |-> 24,
     MONTHLY |-> 12, QUARTERLY |-> 4, SEMIYEARLY |-> 2, YEARLY |-> 1]

\* ------------------------------------------------------------------------
\* Float arithmetic, held as exact rationals
\* ------------------------------------------------------------------------
Abs(a) == IF a < 0 THEN -a ELSE a

RECURSIVE GCD(_, _)
GCD(a, b) == IF b = 0 THEN a ELSE GCD(b, a % b)

\* the rational n/d (d # 0) in lowest terms with a positive denominator
Rat(n, d) ==
    LET g == GCD(Abs(n), Abs(d))
        s == IF d < 0 THEN -1 ELSE 1
    IN  [num |-> s * (n \div g), den |-> s * (d \div g)]

FromInt(i) == [num |-> i, den |-> 1]

Zero == FromInt(0)

One == FromInt(1)

RatAdd(a, b) == Rat(a.num * b.den + b.num * a.den, a.den * b.den)

RatSub(a, b) == Rat(a.num * b.den - b.num * a.den, a.den * b.den)

\* a * b, cancelling common factors before multiplying
RatMul(a, b) ==
    LET g1 == GCD(Abs(a.num), b.den)
        g2 == GCD(Abs(b.num), a.den)
    IN  Rat((a.num \div g1) * (b.num \div g2), (a.den \div g2) * (b.den \div g1))

\* a / b for b # 0
RatDiv(a, b) == RatMul(a, Rat(b.den, b.num))

RECURSIVE PowNat(_, _)
PowNat(b, e) == IF e = 0 THEN One ELSE RatMul(b, PowNat(b, e - 1))

\* b ** e for an integer exponent; b # 0 when e < 0
RatPow(b, e) == IF e >= 0 THEN PowNat(b, e) ELSE RatDiv(One, PowNat(b, -e))

\* round2 as it would be if the amount were truncated to whole cents
round2_truncating(v) == v.num \div v.den

\* round(v, 2) of an amount of v cents: nearest cent, ties to even
round2(v) ==
    LET fl == v.num \div v.den
        twice == 2 * (v.num - fl * v.den)
    IN  IF twice < v.den THEN fl
        ELSE IF twice > v.den THEN fl + 1
        ELSE IF fl % 2 = 0 THEN fl ELSE fl + 1


\* ------------------------------------------------------------------------
\* api/utils.py: calculate_amortization_amount
\* ------------------------------------------------------------------------
\* AdjustedInterest as it would be if the rate were always divided by 12,
\* whatever the payment frequency
AdjustedInterest_monthly(interest_rate_, payment_frequency_) ==
    RatDiv(interest_rate_, FromInt(PaymentFrequency["MONTHLY"]))

\* line 25: adjusted_interest = interest_rate / payment_frequency.value
AdjustedInterest(interest_rate_, payment_frequency_) ==
    RatDiv(interest_rate_, FromInt(PaymentFrequency[payment_frequency_]))

\* line 26 raises ZeroDivisionError when 0.0 is raised to a negative power
PowRaises(base, period_) == base = Zero /\ period_ < 0

\* line 26: x = (1 + adjusted_interest) ** period
X(adjusted_interest_, period_) == RatPow(RatAdd(One, adjusted_interest_), period_)

\* line 27 before rounding: principal * (adjusted_interest * x) / (x - 1),
\* in cents; the divisor x - 1 is not zero
UnroundedAmount(principal_, adjusted_interest_, x_) ==
    RatDiv(RatMul(FromInt(principal_), RatMul(adjusted_interest_, x_)),
           RatSub(x_, One))

\* ------------------------------------------------------------------------
\* The same float arithmetic for operands too long for one machine integer:
\* natural numbers as sequences of digits in base BigBase, least
\* significant digit first, no leading zero (<<>> is 0)
\* ------------------------------------------------------------------------
BigBase == 10000

RECURSIVE BigOf(_)
BigOf(n) == IF n = 0 THEN <<>> ELSE <<n % BigBase>> \o BigOf(n \div BigBase)

RECURSIVE BigTrim(_)
BigTrim(a) ==
    IF a = <<>> THEN a
    ELSE IF a[Len(a)] = 0 THEN BigTrim(SubSeq(a, 1, Len(a) - 1)) ELSE a

BigDigit(a, i) == IF i <= Len(a) THEN a[i] ELSE 0

RECURSIVE BigAddFrom(_, _, _, _)
BigAddFrom(a, b, i, carry) ==
    IF i > Len(a) /\ i > Len(b)
    THEN IF carry = 0 THEN <<>> ELSE <<carry>>
    ELSE LET s == BigDigit(a, i) + BigDigit(b, i) + carry
         IN  <<s % BigBase>> \o BigAddFrom(a, b, i + 1, s \div BigBase)

BigAdd(a, b) == BigAddFrom(a, b, 1, 0)

RECURSIVE BigSubFrom(_, _, _, _)
BigSubFrom(a, b, i, borrow) ==
    IF i > Len(a) THEN <<>>
    ELSE LET s == a[i] - BigDigit(b, i) - borrow
         IN  <<s % BigBase>> \o BigSubFrom(a, b, i + 1, IF s < 0 THEN 1 ELSE 0)

\* a - b for a >= b
BigSub(a, b) == BigTrim(BigSubFrom(a, b, 1, 0))

RECURSIVE BigMulDigitFrom(_, _, _, _)
BigMulDigitFrom(a, k, i, carry) ==
    IF i > Len(a)
    THEN IF carry = 0 THEN <<>> ELSE <<carry>>
    ELSE LET s == a[i] * k + carry
         IN  <<s % BigBase>> \o BigMulDigitFrom(a, k, i + 1, s \div BigBase)

\* a * b, one digit of b at a time
RECURSIVE BigMulBy(_, _)
BigMulBy(a, b) ==
    IF b = <<>> THEN <<>>
    ELSE LET rest == BigMulBy(a, Tail(b))
         IN  IF rest = <<>> THEN BigMulDigitFrom(a, b[1], 1, 0)
             ELSE BigAdd(BigMulDigitFrom(a, b[1], 1, 0), <<0>> \o rest)

BigMul(a, b) ==
    IF a = <<>> \/ b = <<>> THEN <<>>
    ELSE IF Len(a) < Len(b) THEN BigTrim(BigMulBy(b, a))
    ELSE BigTrim(BigMulBy(a, b))

RECURSIVE BigLessFrom(_, _, _)
BigLessFrom(a, b, i) ==
    IF i = 0 THEN FALSE
    ELSE IF a[i] # b[i] THEN a[i] < b[i] ELSE BigLessFrom(a, b, i - 1)

\* a < b
BigLess(a, b) ==
    IF Len(a) # Len(b) THEN Len(a) < Len(b) ELSE BigLessFrom(a, b, Len(a))

RECURSIVE BigPow(_, _)
BigPow(a, e) ==
    IF e = 0 THEN BigOf(1)
    ELSE LET half == BigPow(a, e \div 2)
             square == BigMul(half, half)
         IN  IF e % 2 = 0 THEN square ELSE BigMul(square, a)

\* long division, one decimal digit of the quotient at a time: q holds the
\* digits above step, and the digit at step is the largest k with
\* (q + k * step) * d <= n
RECURSIVE BigQuotFrom(_, _, _, _)
BigQuotFrom(n, d, q, step) ==
    IF step = 0 THEN q
    ELSE LET fits == {k \in 0 .. 9 : ~BigLess(n, BigMul(d, BigOf(q + k * step)))}
             digit == CHOOSE k \in fits : \A j \in fits : j <= k
         IN  BigQuotFrom(n, d, q + digit * step, step \div 10)

\* floor(n / d) for d # 0 and a quotient below 10^9
BigQuot(n, d) == BigQuotFrom(n, d, 0, 100000000)

\* round(n / d, 2) of an amount of n/d cents: nearest cent, ties to even
BigRound2(n, d) ==
    LET fl == BigQuot(n, d)
        twice == BigMul(BigOf(2), BigSub(n, BigMul(d, BigOf(fl))))
    IN  IF BigLess(twice, d) THEN fl
        ELSE IF BigLess(d, twice) THEN fl + 1
        ELSE IF fl % 2 = 0 THEN fl ELSE fl + 1

\* the operands of line 27 for principal >= 0, adjusted_interest > 0 and
\* period >= 1: with adjusted_interest = a/b and x = (a + b)^period / b^period,
\* principal * (adjusted_interest * x) / (x - 1) is
\* principal * a * (a + b)^period / (b * ((a + b)^period - b^period))
BigNumerator(principal_, adjusted_interest_, period_) ==
    BigMul(BigMul(BigOf(principal_), BigOf(adjusted_interest_.num)),
           BigPow(BigOf(adjusted_interest_.num + adjusted_interest_.den), period_))

BigDenominator(adjusted_interest_, period_) ==
    BigMul(BigOf(adjusted_interest_.den),
           BigSub(BigPow(BigOf(adjusted_interest_.num + adjusted_interest_.den),
                         period_),
                  BigPow(BigOf(adjusted_interest_.den), period_)))

\* line 27 for such operands
BigAmount(principal_, adjusted_interest_, period_) ==
    BigRound2(BigNumerator(principal_, adjusted_interest_, period_),
              BigDenominator(adjusted_interest_, period_))

\* the number of decimal digits of n >= 0
RECURSIVE Digits(_)
Digits(n) == IF n < 10 THEN 1 ELSE 1 + Digits(n \div 10)

\* machine integers hold every number of at most MachineDigits digits
MachineDigits == 9

\* the operands of line 27 do not fit machine integers and are of the kind
\* BigAmount handles
Long(principal_, adjusted_interest_, period_) ==
    /\ principal_ >= 0 /\ adjusted_interest_.num > 0 /\ period_ >= 1
    /\ Digits(principal_) + Digits(adjusted_interest_.num)
         + period_ * Digits(adjusted_interest_.num + adjusted_interest_.den)
            > MachineDigits

\* calculate_amortization_amount as it would be if it refused a principal
\* that is not positive
calculate_amortization_amount_positive_only(principal_, interest_rate_, period_, payment_frequency_) ==
    LET adj == AdjustedInterest(interest_rate_, payment_frequency_)
    IN  IF principal_ <= 0
        THEN [exc |-> "ValueError", value |-> 0]
        ELSE IF PowRaises(RatAdd(One, adj), period_)
        THEN [exc |-> "ZeroDivisionError", value |-> 0]
        ELSE IF Long(principal_, adj, period_)
        THEN [exc |-> "none", value |-> BigAmount(principal_, adj, period_)]
        ELSE LET x == X(adj, period_)
             IN  IF RatSub(x, One) = Zero
                 THEN [exc |-> "ZeroDivisionError", value |-> 0]
                 ELSE [exc |-> "none",
                       value |-> round2(UnroundedAmount(principal_, adj, x))]

\* calculate_amortization_amount as it would be with a zero-rate branch
\* returning round(principal / period, 2)
calculate_amortization_amount_zero_rate_branch(principal_, interest_rate_, period_, payment_frequency_) ==
    LET adj == AdjustedInterest(interest_rate_, payment_frequency_)
    IN  IF interest_rate_ = Zero /\ period_ # 0
        THEN [exc |-> "none",
              value |-> round2(RatDiv(FromInt(principal_), FromInt(period_)))]
        ELSE IF PowRaises(RatAdd(One, adj), period_)
        THEN [exc |-> "ZeroDivisionError", value |-> 0]
        ELSE IF Long(principal_, adj, period_)
        THEN [exc |-> "none", value |-> BigAmount(principal_, adj, period_)]
        ELSE LET x == X(adj, period_)
             IN  IF RatSub(x, One) = Zero
                 THEN [exc |-> "ZeroDivisionError", value |-> 0]
                 ELSE [exc |-> "none",
                       value |-> round2(UnroundedAmount(principal_, adj, x))]

\* the outcome of one call: exc = "none" and the returned value, or the
\* exception raised
calculate_amortization_amount(principal_, interest_rate_, period_, payment_frequency_) ==
    LET adj == AdjustedInterest(interest_rate_, payment_frequency_)
    IN  IF PowRaises(RatAdd(One, adj), period_)
        THEN [exc |-> "ZeroDivisionError", value |-> 0]
        ELSE IF Long(principal_, adj, period_)
        THEN [exc |-> "none", value |-> BigAmount(principal_, adj, period_)]
        ELSE LET x == X(adj, period_)
             IN  IF RatSub(x, One) = Zero
                 THEN [exc |-> "ZeroDivisionError", value |-> 0]
                 ELSE [exc |-> "none",
                       value |-> round2(UnroundedAmount(principal_, adj, x))]

\* ------------------------------------------------------------------------
\* api/utils.py: amortization_schedule (a generator)
\* ------------------------------------------------------------------------
\* Interest as it would be if the amount were cut to whole cents instead of
\* rounded
Interest_truncated(balance_, adjusted_interest_) ==
    round2_truncating(RatMul(FromInt(balance_), adjusted_interest_))

\* lines 46, 50: interest = round(balance * adjusted_interest, 2)
Interest(balance_, adjusted_interest_) ==
    round2(RatMul(FromInt(balance_), adjusted_interest_))

\* InRange as it would be for range(1, period + 1)
InRange_inclusive(number_, period_) == 1 <= number_ /\ number_ <= period_

\* line 45: number is drawn from range(1, period)
InRange(number_, period_) == 1 <= number_ /\ number_ < period_

\* LoopRow as it would be if the interest were added to the payment
\* instead of subtracted from it
LoopRow_interest_added(number_, amortization_amount_, balance_, adjusted_interest_) ==
    LET interest == Interest(balance_, adjusted_interest_)
        principal_payment == amortization_amount_ + interest
    IN  [number |-> number_, amortization_amount |-> amortization_amount_,
         interest |-> interest, principal_payment |-> principal_payment,
         balance |-> balance_ - principal_payment]

\* LoopRow as it would be if the payment did not reduce the balance
LoopRow_balance_not_reduced(number_, amortization_amount_, balance_, adjusted_interest_) ==
    LET interest == Interest(balance_, adjusted_interest_)
        principal_payment == amortization_amount_ - interest
    IN  [number |-> number_, amortization_amount |-> amortization_amount_,
         interest |-> interest, principal_payment |-> principal_payment,
         balance |-> balance_]

\* lines 46-49: the row yielded by one iteration of the loop
LoopRow(number_, amortization_amount_, balance_, adjusted_interest_) ==
    LET interest == Interest(balance_, adjusted_interest_)
        principal_payment == amortization_amount_ - interest
    IN  [number |-> number_, amortization_amount |-> amortization_amount_,
         interest |-> interest, principal_payment |-> principal_payment,
         balance |-> balance_ - principal_payment]

\* FinalRow as it would be if the last row carried the balance before the
\* last payment
FinalRow_balance_kept(period_, balance_, adjusted_interest_) ==
    LET interest == Interest(balance_, adjusted_interest_)
    IN  [number |-> period_, amortization_amount |-> balance_ + interest,
         interest |-> interest, principal_payment |-> balance_,
         balance |-> balance_]

\* FinalRow as it would be if the principal component of the last row were
\* the whole last payment
FinalRow_payment_as_principal(period_, balance_, adjusted_interest_) ==
    LET interest == Interest(balance_, adjusted_interest_)
    IN  [number |-> period_, amortization_amount |-> balance_ + interest,
         interest |-> interest, principal_payment |-> balance_ + interest,
         balance |-> 0]

\* FinalRow as it would be if the last payment left the interest out
FinalRow_interest_left_out(period_, balance_, adjusted_interest_) ==
    LET interest == Interest(balance_, adjusted_interest_)
    IN  [number |-> period_, amortization_amount |-> balance_,
         interest |-> interest, principal_payment |-> balance_, balance |-> 0]

\* lines 50-51: the row yielded after the loop
FinalRow(period_, balance_, adjusted_interest_) ==
    LET interest == Interest(balance_, adjusted_interest_)
    IN  [number |-> period_, amortization_amount |-> balance_ + interest,
         interest |-> interest, principal_payment |-> balance_, balance |-> 0]

\* ------------------------------------------------------------------------
\* State
\* ------------------------------------------------------------------------
VARIABLES
    op,                  \* the function being called, or "none"
    pc,                  \* position of the call
    principal,           \* arguments of the call
    interest_rate,
    period,
    payment_frequency,
    amortization_amount, \* locals of the generator
    adjusted_interest,
    balance,
    number,
    rows,                \* the rows yielded so far
    result,              \* <<v>> once calculate_amortization_amount returned v
    exc                  \* the exception that ended the call, or "none"

VARIABLES
    users,               \* the rows of table users, in insertion order
    loans,               \* the rows of table loans, in insertion order
    request,             \* the request being served, or NoRequest
    response,            \* the outcome of its handler, or NoResponse
    sessions             \* the create-user requests served concurrently

\* the engine's variables and the application's
engine == <<op, pc, principal, interest_rate, period, payment_frequency,
            amortization_amount, adjusted_interest, balance, number, rows,
            result, exc>>

store == <<users, loans, request, response, sessions>>

vars == <<op, pc, principal, interest_rate, period, payment_frequency,
          amortization_amount, adjusted_interest, balance, number, rows,
          result, exc, users, loans, request, response, sessions>>

\* no request is being served
NoRequest ==
    [op |-> "none", email |-> "", password |-> "", user_id |-> 0, loan_id |-> 0,
     month |-> 0, skip |-> 0, limit |-> 0, loan |-> <<>>]

NoResponse == [exc |-> "none", status_code |-> 0, detail |-> "", body |-> <<>>]

\* the clients whose create-user requests may overlap
MaxClients == 2

Clients == 1 .. MaxClients

\* a client with no request under way
IdleSession == [pc |-> "idle", email |-> "", password |-> "", response |-> NoResponse]

\* inputs of the explored calls
Principals == (0 - NegPrincipal) .. MaxPrincipal

Periods == (0 - NegPeriod) .. MaxPeriod

Rates == {Zero, Rat(2, 3), Rat(2, 5), Rat(-2, 1)}

Frequencies == {"YEARLY", "SEMIYEARLY"}

Init ==
    /\ op = "none"
    /\ pc = "idle"
    /\ principal = 0
    /\ interest_rate = Zero
    /\ period = 0
    /\ payment_frequency = "MONTHLY"
    /\ amortization_amount = 0
    /\ adjusted_interest = Zero
    /\ balance = 0
    /\ number = 0
    /\ rows = <<>>
    /\ result = <<>>
    /\ exc = "none"
    /\ users = <<>>
    /\ loans = <<>>
    /\ request = NoRequest
    /\ response = NoResponse
    /\ sessions = [c \in Clients |-> IdleSession]

\* calculate_amortization_amount(p, r, t, f) is called and runs to its end
Calculate(p, r, t, f) ==
    /\ pc = "idle"
    /\ op' = "calculate_amortization_amount"
    /\ principal' = p
    /\ interest_rate' = r
    /\ period' = t
    /\ payment_frequency' = f
    /\ LET c == calculate_amortization_amount(p, r, t, f)
       IN  IF c.exc = "none"
           THEN pc' = "returned" /\ result' = <<c.value>> /\ exc' = "none"
           ELSE pc' = "raised" /\ result' = <<>> /\ exc' = c.exc
    /\ UNCHANGED <<amortization_amount, adjusted_interest, balance, number, rows>>
    /\ UNCHANGED store

\* amortization_schedule(p, r, t, f) is called: the generator object is
\* created, its body has not started
Schedule(p, r, t, f) ==
    /\ pc = "idle"
    /\ op' = "amortization_schedule"
    /\ pc' = "created"
    /\ principal' = p
    /\ interest_rate' = r
    /\ period' = t
    /\ payment_frequency' = f
    /\ UNCHANGED <<amortization_amount, adjusted_interest, balance, number,
                   rows, result, exc>>
    /\ UNCHANGED store

\* a caller invokes calculate_amortization_amount
CallCalculate ==
    \E p \in Principals, r \in Rates, t \in Periods, f \in Frequencies :
        Calculate(p, r, t, f)

\* a caller invokes amortization_schedule
CallSchedule ==
    \E p \in Principals, r \in Rates, t \in Periods, f \in Frequencies :
        Schedule(p, r, t, f)

\* the calls of tests/test_utils.py and tests/test_main.py, amounts in
\* cents: <<principal, interest_rate, period, payment_frequency>>
ReferenceCalls ==
    {<<15000000, Rat(1, 10), 36, "MONTHLY">>,
     <<15000000, Rat(1, 10), 36, "SEMIMONTHLY">>,
     <<20000000, Rat(1, 20), 24, "MONTHLY">>,
     <<10000000, Rat(7, 100), 12, "SEMIMONTHLY">>,
     <<5000000, Rat(2, 25), 48, "QUARTERLY">>,
     <<0, Rat(1, 10), 36, "MONTHLY">>,
     <<15000000, Rat(1, 10), 1, "MONTHLY">>,
     <<100000, Rat(1, 20), 36, "MONTHLY">>}

\* a test invokes calculate_amortization_amount
CallCalculateReference ==
    \E c \in ReferenceCalls : Calculate(c[1], c[2], c[3], c[4])

\* a test invokes amortization_schedule
CallScheduleReference ==
    \E c \in ReferenceCalls : Schedule(c[1], c[2], c[3], c[4])

\* the body resumes at the head of the loop with the given locals and runs
\* to the next yield
Resume(amortization_amount_, adjusted_interest_, balance_, number_) ==
    /\ amortization_amount' = amortization_amount_
    /\ adjusted_interest' = adjusted_interest_
    /\ IF InRange(number_ + 1, period)
       THEN LET row == LoopRow(number_ + 1, amortization_amount_, balance_,
                               adjusted_interest_)
            IN  /\ number' = number_ + 1
                /\ balance' = row.balance
                /\ rows' = Append(rows, row)
                /\ pc' = "yielded"
       ELSE /\ number' = number_
            /\ balance' = balance_
            /\ rows' = Append(rows, FinalRow(period, balance_, adjusted_interest_))
            /\ pc' = "final"

\* first next(): lines 42-44, then on to the first yield
NextFirst ==
    /\ pc = "created"
    /\ LET c == calculate_amortization_amount(principal, interest_rate, period,
                                              payment_frequency)
       IN  IF c.exc = "none"
           THEN /\ Resume(c.value,
                          AdjustedInterest(interest_rate, payment_frequency),
                          principal, 0)
                /\ exc' = "none"
           ELSE /\ pc' = "raised"
                /\ exc' = c.exc
                /\ UNCHANGED <<amortization_amount, adjusted_interest, balance,
                               number, rows>>
    /\ UNCHANGED <<op, principal, interest_rate, period, payment_frequency, result>>
    /\ UNCHANGED store

\* a later next() after a yield inside the loop
NextResume ==
    /\ pc = "yielded"
    /\ Resume(amortization_amount, adjusted_interest, balance, number)
    /\ UNCHANGED <<op, principal, interest_rate, period, payment_frequency,
                   result, exc>>
    /\ UNCHANGED store

\* next() after the final yield: the body ends, the generator is exhausted
NextStop ==
    /\ pc = "final"
    /\ pc' = "done"
    /\ UNCHANGED <<op, principal, interest_rate, period, payment_frequency,
                   amortization_amount, adjusted_interest, balance, number,
                   rows, result, exc>>
    /\ UNCHANGED store

\* the caller is finished with the outcome; the next call starts afresh
Finish ==
    /\ pc \in {"returned", "raised", "done"}
    /\ op' = "none"
    /\ pc' = "idle"
    /\ principal' = 0
    /\ interest_rate' = Zero
    /\ period' = 0
    /\ payment_frequency' = "MONTHLY"
    /\ amortization_amount' = 0
    /\ adjusted_interest' = Zero
    /\ balance' = 0
    /\ number' = 0
    /\ rows' = <<>>
    /\ result' = <<>>
    /\ exc' = "none"
    /\ UNCHANGED store

Next ==
    \/ CallCalculate
    \/ CallSchedule
    \/ NextFirst
    \/ NextResume
    \/ NextStop
    \/ Finish

Spec == Init /\ [][Next]_vars

\* the engine under the calls of the tests
NextReference ==
    \/ CallCalculateReference
    \/ CallScheduleReference
    \/ NextFirst
    \/ NextResume
    \/ NextStop
    \/ Finish

SpecReference == Init /\ [][NextReference]_vars

\* ------------------------------------------------------------------------
\* api/models.py, api/crud.py, api/main.py: the application over the stored
\* users and loans. A loan's amount is kept in cents, its
\* annual_interest_rate in percent as a rational.
\* ------------------------------------------------------------------------

MaxUsers == 2
MaxLoans == 2
MaxMonth == 4

\* what a handler hands back: a returned body, an HTTPException, or another
\* exception that escapes the handler
Returned(body_) == [exc |-> "none", status_code |-> 200, detail |-> "", body |-> body_]

HTTPException(status_code_, detail_) ==
    [exc |-> "HTTPException", status_code |-> status_code_, detail |-> detail_,
     body |-> <<>>]

Raised(exc_) == [exc |-> exc_, status_code |-> 500, detail |-> "", body |-> <<>>]

\* the least index of a non-empty set of indices
FirstIndex(hits) == CHOOSE i \in hits : \A j \in hits : i <= j

\* db.query(User).filter(User.id == user_id).first(): <<row>>, or <<>> for None
QueryUser(users_, user_id_) ==
    LET hits == {i \in 1 .. Len(users_) : users_[i].id = user_id_}
    IN  IF hits = {} THEN <<>> ELSE <<users_[FirstIndex(hits)]>>

\* db.query(Loan).filter(Loan.id == loan_id).first(): <<row>>, or <<>> for None
QueryLoan(loans_, loan_id_) ==
    LET hits == {i \in 1 .. Len(loans_) : loans_[i].id = loan_id_}
    IN  IF hits = {} THEN <<>> ELSE <<loans_[FirstIndex(hits)]>>

\* .offset(skip).limit(limit).all()
OffsetLimit(rows_, skip_, limit_) ==
    LET last == IF skip_ + limit_ < Len(rows_) THEN skip_ + limit_ ELSE Len(rows_)
    IN  IF skip_ >= last THEN <<>> ELSE SubSeq(rows_, skip_ + 1, last)

\* db.query(Loan).filter(Loan.user_id == user_id): the matching rows in order
RECURSIVE LoansOf(_, _)
LoansOf(loans_, user_id_) ==
    IF loans_ = <<>> THEN <<>>
    ELSE IF Head(loans_).user_id = user_id_
    THEN <<Head(loans_)>> \o LoansOf(Tail(loans_), user_id_)
    ELSE LoansOf(Tail(loans_), user_id_)

\* db.query(User).filter(User.email == email).first()
get_user_by_email(users_, email_) ==
    LET hits == {i \in 1 .. Len(users_) : users_[i].email = email_}
    IN  IF hits = {} THEN <<>> ELSE <<users_[FirstIndex(hits)]>>

get_users(users_, skip_, limit_) == OffsetLimit(users_, skip_, limit_)

\* the insert of a users row: the primary key is the next row id, column
\* email is unique, is_active defaults to True
create_user(users_, email_, password_) ==
    LET db_user == [id |-> Len(users_) + 1, email |-> email_,
                    hashed_password |-> password_ \o "notreallyhashed",
                    is_active |-> TRUE]
    IN  IF \E i \in 1 .. Len(users_) : users_[i].email = email_
        THEN [exc |-> "IntegrityError", users |-> users_, user |-> <<>>]
        ELSE [exc |-> "none", users |-> Append(users_, db_user), user |-> <<db_user>>]

\* create_user_endpoint as it would be without the lookup by email
create_user_endpoint_unchecked(users_, email_, password_) ==
    LET c == create_user(users_, email_, password_)
    IN  IF c.exc = "none"
        THEN [users |-> c.users, response |-> Returned(c.user)]
        ELSE [users |-> users_, response |-> Raised(c.exc)]

\* main.py: create_user_endpoint
create_user_endpoint(users_, email_, password_) ==
    LET db_user == get_user_by_email(users_, email_)
    IN  IF db_user # <<>>
        THEN [users |-> users_,
              response |-> HTTPException(400,
                  "Email " \o db_user[1].email \o " already registered")]
        ELSE LET c == create_user(users_, email_, password_)
             IN  IF c.exc = "none"
                 THEN [users |-> c.users, response |-> Returned(c.user)]
                 ELSE [users |-> users_, response |-> Raised(c.exc)]

get_user_loans(users_, loans_, user_id_, skip_, limit_) ==
    LET db_user == QueryUser(users_, user_id_)
    IN  IF db_user # <<>>
        THEN Returned(OffsetLimit(LoansOf(loans_, db_user[1].id), skip_, limit_))
        ELSE HTTPException(404, "User not found")

\* create_loan_for_user as it would be without the lookup of the user
create_loan_for_user_unchecked(users_, loans_, loan_, user_id_) ==
    LET db_loan == [id |-> Len(loans_) + 1, amount |-> loan_.amount,
                    annual_interest_rate |-> loan_.annual_interest_rate,
                    loan_term_months |-> loan_.loan_term_months,
                    frequency |-> loan_.frequency, user_id |-> user_id_]
    IN  [loans |-> Append(loans_, db_loan), response |-> Returned(<<db_loan>>)]

create_loan_for_user(users_, loans_, loan_, user_id_) ==
    LET db_user == QueryUser(users_, user_id_)
        db_loan == [id |-> Len(loans_) + 1, amount |-> loan_.amount,
                    annual_interest_rate |-> loan_.annual_interest_rate,
                    loan_term_months |-> loan_.loan_term_months,
                    frequency |-> loan_.frequency, user_id |-> user_id_]
    IN  IF db_user = <<>>
        THEN [loans |-> loans_, response |-> HTTPException(404, "User not found")]
        ELSE [loans |-> Append(loans_, db_loan), response |-> Returned(<<db_loan>>)]

\* the rows the generator yields from the head of the loop on
RECURSIVE RowsFrom(_, _, _, _, _)
RowsFrom(number_, amortization_amount_, balance_, adjusted_interest_, period_) ==
    IF InRange(number_, period_)
    THEN LET row == LoopRow(number_, amortization_amount_, balance_,
                            adjusted_interest_)
         IN  <<row>> \o RowsFrom(number_ + 1, amortization_amount_, row.balance,
                                 adjusted_interest_, period_)
    ELSE <<FinalRow(period_, balance_, adjusted_interest_)>>

\* list_amortization_schedule as it would be if the stored percentage were
\* passed on as the rate without the division by 100
list_amortization_schedule_percent(loan_) ==
    LET interest_rate_ == loan_.annual_interest_rate
        c == calculate_amortization_amount(loan_.amount, interest_rate_,
                 loan_.loan_term_months, loan_.frequency)
    IN  IF c.exc # "none" THEN [exc |-> c.exc, rows |-> <<>>]
        ELSE [exc |-> "none",
              rows |-> RowsFrom(1, c.value, loan_.amount,
                           AdjustedInterest(interest_rate_, loan_.frequency),
                           loan_.loan_term_months)]

\* list(amortization_schedule(principal=loan_.amount,
\*      interest_rate=loan_.annual_interest_rate / 100,
\*      period=loan_.loan_term_months, payment_frequency=loan_.frequency)):
\* the rows, or the exception that ends the iteration
list_amortization_schedule(loan_) ==
    LET interest_rate_ == RatDiv(loan_.annual_interest_rate, FromInt(100))
        c == calculate_amortization_amount(loan_.amount, interest_rate_,
                 loan_.loan_term_months, loan_.frequency)
    IN  IF c.exc # "none" THEN [exc |-> c.exc, rows |-> <<>>]
        ELSE [exc |-> "none",
              rows |-> RowsFrom(1, c.value, loan_.amount,
                           AdjustedInterest(interest_rate_, loan_.frequency),
                           loan_.loan_term_months)]

\* the loan of tests/test_main.py: 1000.0 at 5.0 percent, 36 monthly payments
ReferenceLoan ==
    [amount |-> 100000, annual_interest_rate |-> Rat(5, 1),
     loan_term_months |-> 36, frequency |-> "MONTHLY"]

LoanCreates ==
    {ReferenceLoan,
     [amount |-> 12, annual_interest_rate |-> Rat(40, 1),
      loan_term_months |-> 3, frequency |-> "YEARLY"],
     [amount |-> 7, annual_interest_rate |-> Rat(40, 1),
      loan_term_months |-> 2, frequency |-> "SEMIYEARLY"],
     [amount |-> 5, annual_interest_rate |-> Zero,
      loan_term_months |-> 2, frequency |-> "YEARLY"]}

\* the schedule of every explored loan, computed once
Schedules == [loan_ \in LoanCreates |-> list_amortization_schedule(loan_)]

\* lines 222-229, 278-285: amortization_data of a stored loan
amortization_data(db_loan) ==
    Schedules[[amount |-> db_loan.amount,
               annual_interest_rate |-> db_loan.annual_interest_rate,
               loan_term_months |-> db_loan.loan_term_months,
               frequency |-> db_loan.frequency]]

\* one LoanSchedule of the returned list
LoanSchedule(row) ==
    [month |-> row.number,
     remaining_balance |-> round2(FromInt(row.balance)),
     monthly_payment |-> round2(FromInt(row.amortization_amount))]

\* get_loan_schedule as it would be if a missing loan gave an empty list
get_loan_schedule_empty_when_missing(loans_, loan_id_) ==
    LET db_loan == QueryLoan(loans_, loan_id_)
    IN  IF db_loan # <<>>
        THEN LET data == amortization_data(db_loan[1])
             IN  IF data.exc # "none" THEN Raised(data.exc)
                 ELSE Returned([i \in 1 .. Len(data.rows) |->
                                   LoanSchedule(data.rows[i])])
        ELSE Returned(<<>>)

get_loan_schedule(loans_, loan_id_) ==
    LET db_loan == QueryLoan(loans_, loan_id_)
    IN  IF db_loan # <<>>
        THEN LET data == amortization_data(db_loan[1])
             IN  IF data.exc # "none" THEN Raised(data.exc)
                 ELSE Returned([i \in 1 .. Len(data.rows) |->
                                   LoanSchedule(data.rows[i])])
        ELSE HTTPException(404, "Loan not found")

\* SliceTo as it would be if a negative month selected no row
SliceTo_from_zero(rows_, month_) ==
    LET stop == IF month_ < 0 THEN 0 ELSE month_
    IN  IF stop <= 0 THEN <<>>
        ELSE IF stop >= Len(rows_) THEN rows_
        ELSE SubSeq(rows_, 1, stop)

\* SliceTo as it would be if a month beyond the last row wrapped around to
\* the start of the list
SliceTo_wrapping(rows_, month_) ==
    LET stop == IF month_ < 0 THEN Len(rows_) + month_
                ELSE month_ % (Len(rows_) + 1)
    IN  IF stop <= 0 THEN <<>>
        ELSE IF stop >= Len(rows_) THEN rows_
        ELSE SubSeq(rows_, 1, stop)

\* amortization_data[:month]
SliceTo(rows_, month_) ==
    LET stop == IF month_ < 0 THEN Len(rows_) + month_ ELSE month_
    IN  IF stop <= 0 THEN <<>>
        ELSE IF stop >= Len(rows_) THEN rows_
        ELSE SubSeq(rows_, 1, stop)

\* lines 291-294: the loop over the sliced rows
RECURSIVE Fold(_, _)
Fold(rows_, acc) ==
    IF rows_ = <<>> THEN acc
    ELSE Fold(Tail(rows_),
              [current_principal_balance |-> Head(rows_).balance,
               aggregate_principal_paid |->
                   acc.aggregate_principal_paid + Head(rows_).principal_payment,
               aggregate_interest_paid |->
                   acc.aggregate_interest_paid + Head(rows_).interest])

\* get_loan_summary as it would be if it folded one row fewer than asked
get_loan_summary_one_short(loans_, loan_id_, month_) ==
    LET db_loan == QueryLoan(loans_, loan_id_)
    IN  IF db_loan = <<>> THEN HTTPException(404, "Loan not found")
        ELSE LET data == amortization_data(db_loan[1])
             IN  IF data.exc # "none" THEN Raised(data.exc)
                 ELSE LET sums == Fold(SliceTo(data.rows, month_ - 1),
                                       [current_principal_balance |-> 0,
                                        aggregate_principal_paid |-> 0,
                                        aggregate_interest_paid |-> 0])
                      IN  Returned(<<[current_principal_balance |->
                                          round2(FromInt(sums.current_principal_balance)),
                                      aggregate_principal_paid |->
                                          round2(FromInt(sums.aggregate_principal_paid)),
                                      aggregate_interest_paid |->
                                          round2(FromInt(sums.aggregate_interest_paid))]>>)

get_loan_summary(loans_, loan_id_, month_) ==
    LET db_loan == QueryLoan(loans_, loan_id_)
    IN  IF db_loan = <<>> THEN HTTPException(404, "Loan not found")
        ELSE LET data == amortization_data(db_loan[1])
             IN  IF data.exc # "none" THEN Raised(data.exc)
                 ELSE LET sums == Fold(SliceTo(data.rows, month_),
                                       [current_principal_balance |-> 0,
                                        aggregate_principal_paid |-> 0,
                                        aggregate_interest_paid |-> 0])
                      IN  Returned(<<[current_principal_balance |->
                                          round2(FromInt(sums.current_principal_balance)),
                                      aggregate_principal_paid |->
                                          round2(FromInt(sums.aggregate_principal_paid)),
                                      aggregate_interest_paid |->
                                          round2(FromInt(sums.aggregate_interest_paid))]>>)

\* share_loan as it would be if every stored loan were handed to the user
share_loan_moving_all(users_, loans_, loan_id_, user_id_) ==
    LET hits == {i \in 1 .. Len(loans_) : loans_[i].id = loan_id_}
        user_to_share == QueryUser(users_, user_id_)
    IN  IF hits = {}
        THEN [loans |-> loans_, response |-> HTTPException(404, "Loan not found")]
        ELSE IF user_to_share = <<>>
        THEN [loans |-> loans_, response |-> HTTPException(404, "User not found")]
        ELSE [loans |-> [i \in 1 .. Len(loans_) |->
                            [loans_[i] EXCEPT !.user_id = user_to_share[1].id]],
              response |-> Returned(<<[message |-> "Loan shared successfully"]>>)]

\* share_loan as it would be if the user were not looked up
share_loan_user_unchecked(users_, loans_, loan_id_, user_id_) ==
    LET hits == {i \in 1 .. Len(loans_) : loans_[i].id = loan_id_}
    IN  IF hits = {}
        THEN [loans |-> loans_, response |-> HTTPException(404, "Loan not found")]
        ELSE [loans |-> [loans_ EXCEPT ![FirstIndex(hits)].user_id = user_id_],
              response |-> Returned(<<[message |-> "Loan shared successfully"]>>)]

\* share_loan as it would be if the user were looked up before the loan
share_loan_user_first(users_, loans_, loan_id_, user_id_) ==
    LET hits == {i \in 1 .. Len(loans_) : loans_[i].id = loan_id_}
        user_to_share == QueryUser(users_, user_id_)
    IN  IF user_to_share = <<>>
        THEN [loans |-> loans_, response |-> HTTPException(404, "User not found")]
        ELSE IF hits = {}
        THEN [loans |-> loans_, response |-> HTTPException(404, "Loan not found")]
        ELSE [loans |-> [loans_ EXCEPT ![FirstIndex(hits)].user_id = user_to_share[1].id],
              response |-> Returned(<<[message |-> "Loan shared successfully"]>>)]

share_loan(users_, loans_, loan_id_, user_id_) ==
    LET hits == {i \in 1 .. Len(loans_) : loans_[i].id = loan_id_}
        user_to_share == QueryUser(users_, user_id_)
    IN  IF hits = {}
        THEN [loans |-> loans_, response |-> HTTPException(404, "Loan not found")]
        ELSE IF user_to_share = <<>>
        THEN [loans |-> loans_, response |-> HTTPException(404, "User not found")]
        ELSE [loans |-> [loans_ EXCEPT ![FirstIndex(hits)].user_id = user_to_share[1].id],
              response |-> Returned(<<[message |-> "Loan shared successfully"]>>)]

\* inputs of the explored requests
Emails == {"a@example.com", "b@example.com"}
Passwords == {"secret"}
UserIds == 1 .. MaxUsers + 1
LoanIds == 1 .. MaxLoans + 1
Skips == {0, 1}
Limits == {1, 100}

Months == ((0 - MaxMonth) .. MaxMonth) \cup {-37, -36, -22, 14, 36, 37}

\* POST /users/
CreateUser ==
    \E email_ \in Emails, password_ \in Passwords :
        /\ request = NoRequest
        /\ Len(users) < MaxUsers \/ get_user_by_email(users, email_) # <<>>
        /\ request' = [NoRequest EXCEPT !.op = "create_user_endpoint",
                                        !.email = email_, !.password = password_]
        /\ LET out == create_user_endpoint(users, email_, password_)
           IN  users' = out.users /\ response' = out.response
        /\ UNCHANGED loans
        /\ UNCHANGED <<engine, sessions>>

\* GET /users/
GetUsers ==
    \E skip_ \in Skips, limit_ \in Limits :
        /\ request = NoRequest
        /\ request' = [NoRequest EXCEPT !.op = "get_users", !.skip = skip_,
                                        !.limit = limit_]
        /\ response' = Returned(get_users(users, skip_, limit_))
        /\ UNCHANGED <<users, loans>>
        /\ UNCHANGED <<engine, sessions>>

\* POST /users/{user_id}/loans/
CreateLoan ==
    \E loan_ \in LoanCreates, user_id_ \in UserIds :
        /\ request = NoRequest
        /\ Len(loans) < MaxLoans \/ QueryUser(users, user_id_) = <<>>
        /\ request' = [NoRequest EXCEPT !.op = "create_loan_for_user",
                                        !.loan = <<loan_>>, !.user_id = user_id_]
        /\ LET out == create_loan_for_user(users, loans, loan_, user_id_)
           IN  loans' = out.loans /\ response' = out.response
        /\ UNCHANGED users
        /\ UNCHANGED <<engine, sessions>>

\* GET /users/{user_id}/loans/
GetUserLoans ==
    \E user_id_ \in UserIds, skip_ \in Skips, limit_ \in Limits :
        /\ request = NoRequest
        /\ request' = [NoRequest EXCEPT !.op = "get_user_loans",
                                        !.user_id = user_id_, !.skip = skip_,
                                        !.limit = limit_]
        /\ response' = get_user_loans(users, loans, user_id_, skip_, limit_)
        /\ UNCHANGED <<users, loans>>
        /\ UNCHANGED <<engine, sessions>>

\* GetLoanSchedule as it would be if reading the schedule of the newest
\* loan removed that loan
GetLoanSchedule_dropping_loan ==
    \E loan_id_ \in LoanIds :
        /\ request = NoRequest
        /\ request' = [NoRequest EXCEPT !.op = "get_loan_schedule",
                                        !.loan_id = loan_id_]
        /\ response' = get_loan_schedule(loans, loan_id_)
        /\ loans' = IF loans # <<>> /\ loans[Len(loans)].id = loan_id_
                    THEN SubSeq(loans, 1, Len(loans) - 1)
                    ELSE loans
        /\ UNCHANGED users
        /\ UNCHANGED <<engine, sessions>>

\* GET /loans/{loan_id}/schedule/
GetLoanSchedule ==
    \E loan_id_ \in LoanIds :
        /\ request = NoRequest
        /\ request' = [NoRequest EXCEPT !.op = "get_loan_schedule",
                                        !.loan_id = loan_id_]
        /\ response' = get_loan_schedule(loans, loan_id_)
        /\ UNCHANGED <<users, loans>>
        /\ UNCHANGED <<engine, sessions>>

\* GET /loans/{loan_id}/summary/{month}/
GetLoanSummary ==
    \E loan_id_ \in LoanIds, month_ \in Months :
        /\ request = NoRequest
        /\ request' = [NoRequest EXCEPT !.op = "get_loan_summary",
                                        !.loan_id = loan_id_, !.month = month_]
        /\ response' = get_loan_summary(loans, loan_id_, month_)
        /\ UNCHANGED <<users, loans>>
        /\ UNCHANGED <<engine, sessions>>

\* POST /loans/{loan_id}/share/
ShareLoan ==
    \E loan_id_ \in LoanIds, user_id_ \in UserIds :
        /\ request = NoRequest
        /\ request' = [NoRequest EXCEPT !.op = "share_loan",
                                        !.loan_id = loan_id_, !.user_id = user_id_]
        /\ LET out == share_loan(users, loans, loan_id_, user_id_)
           IN  loans' = out.loans /\ response' = out.response
        /\ UNCHANGED users
        /\ UNCHANGED <<engine, sessions>>

\* the outcome is handed to the client and the session is closed
Close ==
    /\ request # NoRequest
    /\ request' = NoRequest
    /\ response' = NoResponse
    /\ UNCHANGED <<users, loans>>
    /\ UNCHANGED <<engine, sessions>>

NextApi ==
    \/ CreateUser
    \/ GetUsers
    \/ CreateLoan
    \/ GetUserLoans
    \/ GetLoanSchedule
    \/ GetLoanSummary
    \/ ShareLoan
    \/ Close

SpecApi == Init /\ [][NextApi]_vars

\* ------------------------------------------------------------------------
\* api/main.py: create_user_endpoint served for several clients at once.
\* The handler is a plain def, run in a worker thread per request with a
\* session of its own: the lookup of line 136 and the insert and commit of
\* create_user are two steps, and steps of different requests interleave.
\* ------------------------------------------------------------------------

\* line 136: the lookup by email; the request ends here with the 400 error
\* when the email is found
LookUpEmail(c) ==
    \E email_ \in Emails, password_ \in Passwords :
        /\ sessions[c].pc = "idle"
        /\ LET db_user == get_user_by_email(users, email_)
           IN  sessions' = [sessions EXCEPT ![c] =
                   IF db_user # <<>>
                   THEN [pc |-> "done", email |-> email_, password |-> password_,
                         response |-> HTTPException(400,
                             "Email " \o db_user[1].email \o " already registered")]
                   ELSE [pc |-> "looked_up", email |-> email_,
                         password |-> password_, response |-> NoResponse]]
        /\ UNCHANGED <<users, loans, request, response>>
        /\ UNCHANGED engine

\* line 138: create_user adds the row and commits; the commit fails with
\* IntegrityError when the email has been stored in the meantime
InsertUser(c) ==
    /\ sessions[c].pc = "looked_up"
    /\ LET out == create_user(users, sessions[c].email, sessions[c].password)
       IN  /\ users' = out.users
           /\ sessions' = [sessions EXCEPT ![c].pc = "done",
                                           ![c].response =
                               IF out.exc = "none" THEN Returned(out.user)
                               ELSE Raised(out.exc)]
    /\ UNCHANGED <<loans, request, response>>
    /\ UNCHANGED engine

\* the outcome is handed to the client and the session is closed
CloseSession(c) ==
    /\ sessions[c].pc = "done"
    /\ sessions' = [sessions EXCEPT ![c] = IdleSession]
    /\ UNCHANGED <<users, loans, request, response>>
    /\ UNCHANGED engine

NextConcurrent ==
    \E c \in Clients :
        \/ LookUpEmail(c)
        \/ InsertUser(c)
        \/ CloseSession(c)

SpecConcurrent == Init /\ [][NextConcurrent]_vars

\* ------------------------------------------------------------------------
\* Type invariant
\* ------------------------------------------------------------------------
TypeOK ==
    /\ op \in {"none", "calculate_amortization_amount", "amortization_schedule"}
    /\ pc \in {"idle", "returned", "raised", "created", "yielded", "final", "done"}
    /\ principal \in Principals \cup {c[1] : c \in ReferenceCalls}
    /\ interest_rate \in Rates \cup {c[2] : c \in ReferenceCalls}
    /\ period \in Periods \cup {c[3] : c \in ReferenceCalls}
    /\ payment_frequency \in DOMAIN PaymentFrequency
    /\ exc \in {"none", "ZeroDivisionError"}
    /\ Len(result) <= 1


\* ------------------------------------------------------------------------
\* Properties of the engine
\* ------------------------------------------------------------------------
Scheduling == op = "amortization_schedule"

Calculating == op = "calculate_amortization_amount"

\* the generator has yielded its last row
Exhausted == Scheduling /\ pc \in {"final", "done"}

\* the per-period rate and the growth factor of the current arguments
ArgAdjusted == AdjustedInterest(interest_rate, payment_frequency)

ArgGrowth == X(ArgAdjusted, period)

\* the rows yielded so far are numbered 1, 2, ... and there are at most
\* period of them, exactly period once the generator is exhausted
NumberedRows ==
    /\ pc # "raised"
    /\ Len(rows) <= period
    /\ \A i \in 1 .. Len(rows) : rows[i].number = i
    /\ Exhausted => Len(rows) = period

\* C1 as stated: for every term T >= 1, any principal, any non-zero rate and
\* any frequency, the schedule has exactly T rows numbered 1..T in order.
C1_rows_for_nonzero_rate ==
    (Scheduling /\ period >= 1 /\ interest_rate # Zero) => NumberedRows

\* C1 amended: for every term T >= 1, any principal and frequency and any
\* rate whose growth factor (1 + rate/frequency)^T differs from 1, the
\* schedule has exactly T rows numbered 1..T in order, no gap, no repeat.
C1_rows_numbered ==
    (Scheduling /\ period >= 1 /\ ArgGrowth # One) => NumberedRows

C1_witness ==
    /\ Scheduling /\ pc = "done"
    /\ period >= 3 /\ ArgGrowth # One
    /\ Len(rows) = period

\* C2: for positive principal, the last row yielded has remaining balance
\* exactly 0.
C2_last_balance_zero ==
    (Exhausted /\ principal > 0) => rows[Len(rows)].balance = 0

C2_witness ==
    /\ Exhausted /\ principal > 0
    /\ Len(rows) >= 2
    /\ rows[Len(rows) - 1].balance > 0
    /\ rows[Len(rows)].balance = 0

\* C3: for positive principal and non-negative rate the remaining balance
\* never increases from a row to the next, and decreases strictly from a
\* row whose balance is not yet zero.
C3_balance_monotonic ==
    (Scheduling /\ principal > 0 /\ interest_rate.num >= 0) =>
        \A i \in 1 .. Len(rows) - 1 :
            /\ rows[i + 1].balance <= rows[i].balance
            /\ rows[i].balance # 0 => rows[i + 1].balance < rows[i].balance

BalanceBeforeLast ==
    IF Len(rows) = 1 THEN principal ELSE rows[Len(rows) - 1].balance

\* C5: the final row is built from the balance B left after the previous
\* period: interest round(B * per-period rate, 2), principal component B,
\* payment B + interest, remaining balance 0, whatever the fixed payment is.
C5_final_row ==
    Exhausted =>
        LET last == rows[Len(rows)]
            B == BalanceBeforeLast
        IN  /\ last.number = period
            /\ last.interest = round2(RatMul(FromInt(B), ArgAdjusted))
            /\ last.principal_payment = B
            /\ last.amortization_amount = B + last.interest
            /\ last.balance = 0

C5_witness ==
    /\ Exhausted
    /\ period >= 2
    /\ rows[Len(rows)].interest > 0
    /\ rows[Len(rows)].amortization_amount # amortization_amount

\* C6: with a term of 1 the schedule is exactly one row, numbered 1, with
\* principal component the original principal, interest the rounded
\* interest on the full principal, and remaining balance 0.
C6_single_period ==
    (Scheduling /\ period = 1 /\ pc # "created") =>
        /\ pc # "raised"
        /\ Len(rows) = 1
        /\ rows[1].number = 1
        /\ rows[1].principal_payment = principal
        /\ rows[1].interest = round2(RatMul(FromInt(principal), ArgAdjusted))
        /\ rows[1].balance = 0

\* C7: with annual rate 0 the payment calculation does not fail and returns
\* round(principal / term, 2), for positive principal and term.
C7_zero_rate_payment ==
    (Calculating /\ interest_rate = Zero /\ principal > 0 /\ period > 0) =>
        /\ exc = "none"
        /\ result = <<round2(RatDiv(FromInt(principal), FromInt(period)))>>

\* C8: calculate_amortization_amount with rate 0, positive principal and
\* positive term ends in ZeroDivisionError and returns no amount.
C8_zero_rate_raises ==
    (Calculating /\ interest_rate = Zero /\ principal > 0 /\ period > 0) =>
        /\ pc = "raised"
        /\ exc = "ZeroDivisionError"
        /\ result = <<>>

C8_witness ==
    /\ Calculating /\ interest_rate = Zero /\ principal > 0 /\ period > 1
    /\ pc = "raised"

\* C9: for every term <= 0 the schedule generator fails with an error and
\* yields no row.
C9_nonpositive_term_rejected ==
    (Scheduling /\ period <= 0 /\ pc # "created") =>
        /\ pc = "raised"
        /\ rows = <<>>

\* the payment before rounding, for arguments that do not raise
ArgUnrounded == UnroundedAmount(principal, ArgAdjusted, ArgGrowth)

PositiveLoan ==
    Calculating /\ pc = "returned" /\ principal > 0 /\ interest_rate.num > 0
        /\ period > 0

\* C10 as stated: for positive principal, positive rate and positive term
\* the rounded payment amount is strictly positive.
C10_payment_positive == PositiveLoan => result[1] > 0

\* C10 amended: for positive principal, positive rate and positive term the
\* rounded payment amount is never negative, and it is strictly positive
\* whenever the payment before rounding exceeds half a cent.
C10_payment_nonnegative ==
    PositiveLoan =>
        /\ result[1] >= 0
        /\ 2 * ArgUnrounded.num > ArgUnrounded.den => result[1] > 0

C10_witness ==
    /\ PositiveLoan
    /\ 2 * ArgUnrounded.num > ArgUnrounded.den
    /\ ArgUnrounded.num < ArgUnrounded.den
    /\ result = <<1>>


\* the payment before rounding as the fraction n/d of two long naturals,
\* for principal >= 0, rate a/b per period (a > 0) and term >= 1:
\* principal * r * g / (g - 1) with r = a/b and g = (1 + r)^term
PaymentNumerator(a, b) ==
    BigMul(BigOf(principal * a), BigPow(BigOf(a + b), period))

PaymentDenominator(a, b) ==
    BigMul(BigOf(b), BigSub(BigPow(BigOf(a + b), period), BigPow(BigOf(b), period)))

\* v is an integer nearest to n/d: 2 * |v * d - n| <= d
BigNearest(v, n, d) ==
    LET vd == BigMul(BigOf(v), d)
        gap == IF BigLess(vd, n) THEN BigSub(n, vd) ELSE BigSub(vd, n)
    IN  ~BigLess(d, BigMul(BigOf(2), gap))

\* C11: the payment amount is principal * (r * g) / (g - 1) rounded to 2
\* decimals, r = annual rate / periods per year, g = (1 + r)^term; it is
\* 4840.08 for (150000, 0.10, 36, MONTHLY) and 4495.63 for
\* (150000, 0.10, 36, SEMIMONTHLY).
C11_payment_formula ==
    (Calculating /\ pc = "returned" /\ principal >= 0 /\ interest_rate.num > 0
        /\ period >= 1) =>
        LET a == interest_rate.num
            b == interest_rate.den * PaymentFrequency[payment_frequency]
        IN  /\ result[1] >= 0
            /\ BigNearest(result[1], PaymentNumerator(a, b), PaymentDenominator(a, b))
            /\ (principal = 15000000 /\ interest_rate = Rat(1, 10) /\ period = 36
                    /\ payment_frequency = "MONTHLY") => result = <<484008>>
            /\ (principal = 15000000 /\ interest_rate = Rat(1, 10) /\ period = 36
                    /\ payment_frequency = "SEMIMONTHLY") => result = <<449563>>

C11_witness ==
    /\ Calculating /\ pc = "returned"
    /\ principal = 15000000 /\ interest_rate = Rat(1, 10) /\ period = 36
    /\ payment_frequency = "SEMIMONTHLY"
    /\ result = <<449563>>

\* ------------------------------------------------------------------------
\* Properties of the application
\* ------------------------------------------------------------------------

\* the stored loan the served request names: <<row>>, or <<>>
ServedLoan == QueryLoan(loans, request.loan_id)

\* the served request names a stored loan of 1000.0 at 5.0 percent over 36
\* monthly payments
ServesReferenceLoan ==
    /\ ServedLoan # <<>>
    /\ ServedLoan[1].amount = 100000
    /\ ServedLoan[1].annual_interest_rate = Rat(5, 1)
    /\ ServedLoan[1].loan_term_months = 36
    /\ ServedLoan[1].frequency = "MONTHLY"

\* C12: for a stored loan of 1000.0 at 5.0 percent, term 36, MONTHLY,
\* get_loan_schedule returns 36 rows; row 1 has remaining_balance 974.20 and
\* monthly_payment 29.97, rows 1..35 all have monthly_payment 29.97, row 36
\* has remaining_balance 0.0 and monthly_payment 29.98.
C12_reference_schedule ==
    (request.op = "get_loan_schedule" /\ ServesReferenceLoan) =>
        /\ response.exc = "none"
        /\ Len(response.body) = 36
        /\ \A i \in 1 .. 36 : response.body[i].month = i
        /\ response.body[1].remaining_balance = 97420
        /\ \A i \in 1 .. 35 : response.body[i].monthly_payment = 2997
        /\ response.body[36].remaining_balance = 0
        /\ response.body[36].monthly_payment = 2998

C12_witness ==
    /\ request.op = "get_loan_schedule" /\ ServesReferenceLoan
    /\ Len(response.body) = 36
    /\ response.body[35].monthly_payment = 2997
    /\ response.body[36].monthly_payment = 2998

\* get_loan_summary has returned a summary for a stored loan
Summarised ==
    request.op = "get_loan_summary" /\ ServedLoan # <<>> /\ response.exc = "none"

\* the schedule rows of the served loan
ServedRows == amortization_data(ServedLoan[1]).rows

\* the sums of the principal and of the interest components of rows 1..n
RECURSIVE PrincipalPaid(_, _)
PrincipalPaid(rows_, n) ==
    IF n = 0 THEN 0 ELSE rows_[n].principal_payment + PrincipalPaid(rows_, n - 1)

RECURSIVE InterestPaid(_, _)
InterestPaid(rows_, n) ==
    IF n = 0 THEN 0 ELSE rows_[n].interest + InterestPaid(rows_, n - 1)

\* C13: for a month m >= 0 get_loan_summary folds exactly the first
\* min(m, term) schedule rows: the aggregates are the sums of their principal
\* and interest components, the current balance is the remaining balance of
\* the last folded row; with m = 0 both aggregates are 0.
C13_summary_folds_first_rows ==
    (Summarised /\ request.month >= 0) =>
        LET term == ServedLoan[1].loan_term_months
            n == IF request.month < term THEN request.month ELSE term
            summary == response.body[1]
        IN  /\ Len(ServedRows) = term
            /\ summary.aggregate_principal_paid = PrincipalPaid(ServedRows, n)
            /\ summary.aggregate_interest_paid = InterestPaid(ServedRows, n)
            /\ n >= 1 => summary.current_principal_balance = ServedRows[n].balance
            /\ request.month = 0 =>
                   /\ summary.aggregate_principal_paid = 0
                   /\ summary.aggregate_interest_paid = 0

C13_witness ==
    /\ Summarised /\ request.month = 2 /\ ServedLoan[1].loan_term_months = 3
    /\ response.body[1].current_principal_balance = 5
    /\ response.body[1].aggregate_principal_paid = 7
    /\ response.body[1].aggregate_interest_paid = 9

\* C14: for the loan (1000.0, 5.0 percent, 36 periods, MONTHLY)
\* get_loan_summary at month 14 returns current_principal_balance 628.78,
\* aggregate_principal_paid 371.22 and aggregate_interest_paid 48.36.
C14_reference_summary ==
    (request.op = "get_loan_summary" /\ ServesReferenceLoan /\ request.month = 14) =>
        /\ response.exc = "none"
        /\ response.body = <<[current_principal_balance |-> 62878,
                              aggregate_principal_paid |-> 37122,
                              aggregate_interest_paid |-> 4836]>>

C14_witness ==
    /\ request.op = "get_loan_summary" /\ ServesReferenceLoan /\ request.month = 14
    /\ response.body[1].current_principal_balance = 62878

\* the schedule of the served loan can be computed
ServedScheduleExists ==
    ServedLoan # <<>> /\ amortization_data(ServedLoan[1]).exc = "none"

C16_month_zero_keeps_principal ==
    (Summarised /\ request.month = 0) =>
        response.body[1].current_principal_balance = ServedLoan[1].amount

\* every row yielded so far is zero in payment, interest, principal
\* component and remaining balance
ZeroRows ==
    \A i \in 1 .. Len(rows) :
        /\ rows[i].amortization_amount = 0
        /\ rows[i].interest = 0
        /\ rows[i].principal_payment = 0
        /\ rows[i].balance = 0

\* a non-positive principal is not rejected: principal 0 gives payment 0 and
\* zero rows, period of them in the end; a negative principal gives period
\* rows in the end and no error
NonPositivePrincipalAccepted ==
    /\ pc # "raised"
    /\ (Calculating /\ principal = 0) => result = <<0>>
    /\ (Scheduling /\ principal = 0) => ZeroRows
    /\ Scheduling => (Len(rows) <= period /\ (Exhausted => Len(rows) = period))

\* C18 as stated: with principal 0, non-zero rate and term T >= 1 the
\* payment amount is 0.0 and all T rows are zero; with negative principal T
\* rows are still produced and no error is raised.
C18_nonpositive_principal ==
    (op # "none" /\ principal <= 0 /\ interest_rate # Zero /\ period >= 1) =>
        NonPositivePrincipalAccepted

\* C18 amended: the same for every rate whose growth factor
\* (1 + rate/frequency)^T differs from 1.
C18_nonpositive_principal_accepted ==
    (op # "none" /\ principal <= 0 /\ period >= 1 /\ ArgGrowth # One) =>
        NonPositivePrincipalAccepted

C18_witness ==
    /\ Scheduling /\ pc = "done"
    /\ principal = 0 /\ period >= 3 /\ ArgGrowth # One
    /\ Len(rows) = period /\ ZeroRows

\* a step that serves a request of the given kind
Serves(op_) == request.op = "none" /\ request'.op = op_

\* no two stored users share an email
UniqueEmails ==
    \A i, j \in 1 .. Len(users) : users[i].email = users[j].email => i = j

\* C19: a create-user request whose email is already held by a stored user
\* is answered with a 400 'Email ... already registered' error and leaves
\* the stored users unchanged; no two stored users ever share an email.
C19_duplicate_email_rejected ==
    /\ []UniqueEmails
    /\ [][(Serves("create_user_endpoint")
            /\ \E i \in 1 .. Len(users) : users[i].email = request'.email) =>
              /\ response'.exc = "HTTPException"
              /\ response'.status_code = 400
              /\ response'.detail =
                     "Email " \o request'.email \o " already registered"
              /\ users' = users]_vars

C19_witness ==
    /\ request.op = "create_user_endpoint"
    /\ response.status_code = 400
    /\ response.detail = "Email b@example.com already registered"
    /\ Len(users) = 2
    /\ users[2].email = "b@example.com"

\* C20: create_loan_for_user with a user_id that matches no stored user
\* raises a 404 'User not found' error and stores no loan; with an existing
\* user it stores exactly one new loan owned by that user and carrying the
\* given amount, rate, term and frequency.
C20_loan_created_for_stored_user ==
    [][Serves("create_loan_for_user") =>
          IF \A i \in 1 .. Len(users) : users[i].id # request'.user_id
          THEN /\ response'.exc = "HTTPException"
               /\ response'.status_code = 404
               /\ response'.detail = "User not found"
               /\ loans' = loans
          ELSE /\ response'.exc = "none"
               /\ Len(loans') = Len(loans) + 1
               /\ SubSeq(loans', 1, Len(loans)) = loans
               /\ loans'[Len(loans')].user_id = request'.user_id
               /\ loans'[Len(loans')].amount = request'.loan[1].amount
               /\ loans'[Len(loans')].annual_interest_rate =
                      request'.loan[1].annual_interest_rate
               /\ loans'[Len(loans')].loan_term_months =
                      request'.loan[1].loan_term_months
               /\ loans'[Len(loans')].frequency = request'.loan[1].frequency
               /\ \A i \in 1 .. Len(loans) : loans[i].id # loans'[Len(loans')].id
               /\ response'.body = <<loans'[Len(loans')]>>]_vars

C20_witness ==
    /\ request.op = "create_loan_for_user"
    /\ response.exc = "none"
    /\ Len(loans) = 2
    /\ loans[2].user_id = request.user_id
    /\ loans[2].amount = request.loan[1].amount
    /\ loans[1].user_id # loans[2].user_id

\* C21: get_loan_schedule and get_loan_summary called with a loan_id that
\* matches no stored loan raise a 404 'Loan not found' error and return no
\* schedule or summary.
C21_missing_loan_not_found ==
    (request.op \in {"get_loan_schedule", "get_loan_summary"}
        /\ \A i \in 1 .. Len(loans) : loans[i].id # request.loan_id) =>
        /\ response.exc = "HTTPException"
        /\ response.status_code = 404
        /\ response.detail = "Loan not found"
        /\ response.body = <<>>

C21_witness ==
    /\ request.op = "get_loan_schedule"
    /\ Len(loans) = 1
    /\ request.loan_id = 2
    /\ response.status_code = 404
    /\ response.detail = "Loan not found"

\* C22: share_loan raises a 404 error when the loan does not exist or when
\* the target user does not exist; the loan is checked first, so both
\* missing gives 'Loan not found'; in both cases no loan's user_id is
\* changed and nothing is stored.
C22_share_missing_rejected ==
    [][Serves("share_loan") =>
          LET no_loan == \A i \in 1 .. Len(loans) : loans[i].id # request'.loan_id
              no_user == \A i \in 1 .. Len(users) : users[i].id # request'.user_id
          IN  /\ no_loan =>
                    /\ response'.exc = "HTTPException"
                    /\ response'.status_code = 404
                    /\ response'.detail = "Loan not found"
              /\ (~no_loan /\ no_user) =>
                    /\ response'.exc = "HTTPException"
                    /\ response'.status_code = 404
                    /\ response'.detail = "User not found"
              /\ (no_loan \/ no_user) => (loans' = loans /\ users' = users)]_vars

C22_witness ==
    /\ request.op = "share_loan"
    /\ Len(loans) >= 1
    /\ \A i \in 1 .. Len(loans) : loans[i].id # request.loan_id
    /\ \A i \in 1 .. Len(users) : users[i].id # request.user_id
    /\ response.status_code = 404
    /\ response.detail = "Loan not found"

\* the balance before period k: the principal, or the balance of row k - 1
BalanceBefore(k) == IF k = 1 THEN principal ELSE rows[k - 1].balance

\* C23: for each period k in 1..term-1, with B the balance before the
\* period, the row is (k, fixed_payment, round(B * per_period_rate, 2),
\* fixed_payment - interest, B - (fixed_payment - interest)), where
\* fixed_payment is the one value of calculate_amortization_amount and
\* per_period_rate = annual_rate / frequency value; the new balance is
\* carried as it is into period k + 1.
C23_loop_rows ==
    (Scheduling /\ period >= 1) =>
        \A k \in 1 .. Len(rows) :
            k < period =>
                LET fixed_payment ==
                        calculate_amortization_amount(principal, interest_rate,
                            period, payment_frequency).value
                    per_period_rate ==
                        RatDiv(interest_rate, FromInt(PaymentFrequency[payment_frequency]))
                    interest == round2(RatMul(FromInt(BalanceBefore(k)), per_period_rate))
                IN  /\ rows[k].number = k
                    /\ rows[k].amortization_amount = fixed_payment
                    /\ rows[k].interest = interest
                    /\ rows[k].principal_payment = fixed_payment - interest
                    /\ rows[k].balance = BalanceBefore(k) - (fixed_payment - interest)

C23_witness ==
    /\ Scheduling /\ pc = "done" /\ period >= 4 /\ principal > 0
    /\ rows[3].interest > 0
    /\ rows[3].principal_payment > 0
    /\ rows[3].balance = rows[2].balance - rows[3].principal_payment
    /\ rows[3].balance < rows[2].balance

\* the loan with the given id is in the list get_user_loans returns for the
\* user, read with skip 0 and limit 100
ListedFor(users_, loans_, loan_id_, user_id_) ==
    LET listing == get_user_loans(users_, loans_, user_id_, 0, 100)
    IN  /\ listing.exc = "none"
        /\ \E j \in 1 .. Len(listing.body) : listing.body[j].id = loan_id_

\* C24: a successful share_loan(loan_id, user_id) makes user_id the sole
\* owner of the loan: afterwards get_user_loans lists the loan for user_id
\* and for no other user, and the owner of every other loan and every
\* stored user are unchanged.
C24_share_moves_ownership ==
    [][(Serves("share_loan") /\ response'.exc = "none") =>
          /\ users' = users
          /\ Len(loans') = Len(loans)
          /\ \A i \in 1 .. Len(loans) :
                IF loans[i].id = request'.loan_id
                THEN loans'[i] = [loans[i] EXCEPT !.user_id = request'.user_id]
                ELSE loans'[i] = loans[i]
          /\ \A u \in 1 .. Len(users) :
                ListedFor(users', loans', request'.loan_id, users[u].id)
                    <=> users[u].id = request'.user_id
          /\ \E u \in 1 .. Len(users) : users[u].id = request'.user_id]_vars

C24_witness ==
    /\ request.op = "share_loan" /\ response.exc = "none"
    /\ Len(users) = 2 /\ Len(loans) = 2
    /\ request.loan_id = 1 /\ request.user_id = 2
    /\ loans[1].user_id = 2
    /\ loans[2].user_id = 1
    /\ ListedFor(users, loans, 1, 2)
    /\ ~ListedFor(users, loans, 1, 1)

C26_balance_never_negative ==
    (Scheduling /\ principal > 0 /\ interest_rate.num > 0 /\ period >= 1) =>
        \A i \in 1 .. Len(rows) : rows[i].balance >= 0

C28_loan_owner_stored ==
    \A i \in 1 .. Len(loans) : \E u \in 1 .. Len(users) : users[u].id = loans[i].user_id

C28_witness ==
    /\ request.op = "share_loan" /\ response.exc = "HTTPException"
    /\ response.detail = "User not found"
    /\ Len(users) = 2 /\ Len(loans) = 2
    /\ loans[1].user_id = 2 /\ loans[2].user_id = 1

\* C29: when two create-user requests for the same email interleave, exactly
\* one of them creates the user and the other is answered with the 400
\* 'already registered' error; no interleaving stores two users with that
\* email or ends a request with any other error.
C29_concurrent_create_user ==
    /\ UniqueEmails
    /\ \A c \in Clients :
          sessions[c].pc = "done" =>
              \/ /\ sessions[c].response.exc = "none"
                 /\ \E u \in 1 .. Len(users) :
                        users[u].email = sessions[c].email
                            /\ sessions[c].response.body = <<users[u]>>
              \/ /\ sessions[c].response.exc = "HTTPException"
                 /\ sessions[c].response.status_code = 400
                 /\ sessions[c].response.detail =
                        "Email " \o sessions[c].email \o " already registered"

\* C30: the read operations get_users, get_user_loans, get_loan_schedule
\* and get_loan_summary leave the stored users and loans unchanged, whether
\* they succeed or raise 404; only create_user, create_loan_for_user and
\* share_loan modify the store.
C30_reads_leave_store ==
    [][/\ (request.op = "none"
            /\ request'.op \in {"get_users", "get_user_loans",
                                "get_loan_schedule", "get_loan_summary"}) =>
               (users' = users /\ loans' = loans)
       /\ users' # users => request'.op = "create_user_endpoint"
       /\ loans' # loans => request'.op \in {"create_loan_for_user", "share_loan"}]_vars

C30_witness ==
    /\ request.op = "get_loan_schedule"
    /\ response.exc = "none"
    /\ Len(response.body) = 3
    /\ Len(users) = 2 /\ Len(loans) = 2
    /\ request.loan_id = 2
    /\ loans[2].loan_term_months = 3

============================================================================
